---- MODULE Spec2Model ----
(***************************************************************************)
(* Model of the BookFinder component (src/src/components/BookFinder.tsx):  *)
(* the React state of the component, the searchBooks handler with its two  *)
(* suspension points (await fetch, await response.json) and the panels     *)
(* the component renders from that state.                                  *)
(*                                                                         *)
(* Strings are sequences of one-character strings, so that trim() and      *)
(* encodeURIComponent() are computed rather than assumed.                  *)
(***************************************************************************)
EXTENDS Integers, Sequences, FiniteSets, TLC

(***************************************************************************)
(* Bounds of the model.                                                    *)
(***************************************************************************)
\* number of requests the user may issue in one behaviour
MaxSearches == 2
\* largest number of docs in a response body
MaxDocs == 1
\* largest numFound a response body reports
MaxFound == 2

(***************************************************************************)
(* Program constants.                                                      *)
(***************************************************************************)
\* "&limit=20" in the request URL
ResultLimit == 20

SearchTypes == {"title", "author", "subject"}

\* the values the user types into the input
Terms ==
  { <<>>,
    <<"\t", " ">>,
    <<" ", "T", "o", "l", "k", "i", "e", "n">> }

\* the keys handleKeyPress receives
Keys == {"Enter", "Escape"}

(***************************************************************************)
(* String.prototype.trim and encodeURIComponent.                           *)
(***************************************************************************)
WhiteSpace == {" ", "\t", "\n"}

RECURSIVE TrimStart(_)
TrimStart(s) ==
  IF s = <<>> THEN <<>>
  ELSE IF Head(s) \in WhiteSpace THEN TrimStart(Tail(s))
  ELSE s

RECURSIVE TrimEnd(_)
TrimEnd(s) ==
  IF s = <<>> THEN <<>>
  ELSE IF s[Len(s)] \in WhiteSpace THEN TrimEnd(SubSeq(s, 1, Len(s) - 1))
  ELSE s

Trim(s) == TrimEnd(TrimStart(s))

\* one character, percent-encoded unless it is unreserved
EncodeChar(c) ==
  CASE c = " "  -> <<"%", "2", "0">>
    [] c = "\t" -> <<"%", "0", "9">>
    [] c = "\n" -> <<"%", "0", "A">>
    [] c = "%"  -> <<"%", "2", "5">>
    [] OTHER    -> <<c>>

RECURSIVE encodeURIComponent(_)
encodeURIComponent(s) ==
  IF s = <<>> THEN <<>>
  ELSE EncodeChar(Head(s)) \o encodeURIComponent(Tail(s))

(***************************************************************************)
(* The notices (toasts) the component raises.                              *)
(***************************************************************************)
NoToast == [title |-> "none", description |-> <<>>, variant |-> "none"]

ToastValidation ==
  [title |-> "Please enter a search term",
   description |-> <<"Enter a book title, author, or subject to search.">>,
   variant |-> "destructive"]

ToastNoBooks(type) ==
  [title |-> "No books found",
   description |-> <<"Try searching with different", type, "terms.">>,
   variant |-> "default"]

ToastSuccess(numFound) ==
  [title |-> "Search successful!",
   description |-> <<"Found", numFound, "books matching your search.">>,
   variant |-> "default"]

ToastFailed ==
  [title |-> "Search failed",
   description |-> <<"There was an error searching for books. Please try again.">>,
   variant |-> "destructive"]

(***************************************************************************)
(* Responses of the catalog.                                               *)
(***************************************************************************)
\* the docs of the response to request number id that carries n records
Docs(id, n) == [k \in 1..n |-> [key |-> <<id, k>>]]

\* the bodies response.json() can produce for request number id
NumFounds(n) == {f \in {n, MaxFound} : f >= n}

Bodies(id) ==
  UNION { { [docs |-> Docs(id, n), numFound |-> f] : f \in NumFounds(n) } :
            n \in 0..MaxDocs }

VARIABLES
  searchQuery,   \* useState('')
  searchType,    \* useState<'title' | 'author' | 'subject'>('title')
  books,         \* useState<Book[]>([])
  loading,       \* useState(false)
  hasSearched,   \* useState(false)
  toast,         \* the notice raised last
  calls,         \* the invocations of searchBooks that issued a request
  submitted,     \* whether the last step was an invocation of searchBooks
  last           \* the invocation that completed last and what it received

vars == <<searchQuery, searchType, books, loading, hasSearched, toast, calls, submitted, last>>

\* an invocation that has returned
Done == [pc |-> "done"]

NoneCompleted == [id |-> 0, kind |-> "none", docs |-> <<>>, numFound |-> 0]

Init ==
  /\ searchQuery = <<>>
  /\ searchType = "title"
  /\ books = <<>>
  /\ loading = FALSE
  /\ hasSearched = FALSE
  /\ toast = NoToast
  /\ calls = <<>>
  /\ submitted = FALSE
  /\ last = NoneCompleted

(***************************************************************************)
(* The input and the mode buttons.                                         *)
(***************************************************************************)
setSearchQuery(t) ==
  /\ t # searchQuery
  /\ searchQuery' = t
  /\ submitted' = FALSE
  /\ UNCHANGED <<searchType, books, loading, hasSearched, toast, calls, last>>

setSearchType(type) ==
  /\ type # searchType
  /\ searchType' = type
  /\ submitted' = FALSE
  /\ UNCHANGED <<searchQuery, books, loading, hasSearched, toast, calls, last>>

(***************************************************************************)
(* searchBooks up to its first await.                                      *)
(***************************************************************************)
\* mutant: the author mode is sent as a title query
searchParam_NoAuthor(type) ==
  IF type = "subject" THEN "subject" ELSE "title"

searchParam(type) ==
  IF type = "title" THEN "title"
  ELSE IF type = "author" THEN "author" ELSE "subject"

Request(type, query) ==
  [field |-> searchParam(type),
   term  |-> encodeURIComponent(query),
   limit |-> ResultLimit]

\* mutant: only the empty string is refused, whitespace is searched for
searchBooks_NoTrim ==
  IF searchQuery = <<>>
  THEN /\ toast' = ToastValidation
       /\ UNCHANGED <<searchQuery, searchType, books, loading, hasSearched, calls, last>>
  ELSE /\ Len(calls) < MaxSearches
       /\ loading' = TRUE
       /\ hasSearched' = TRUE
       /\ calls' = Append(calls, [pc |-> "fetch",
                                  request |-> Request(searchType, searchQuery),
                                  searchType |-> searchType])
       /\ UNCHANGED <<searchQuery, searchType, books, toast, last>>

\* mutant: starting a search clears the stored records
searchBooks_ClearsBooks ==
  IF Trim(searchQuery) = <<>>
  THEN /\ toast' = ToastValidation
       /\ UNCHANGED <<searchQuery, searchType, books, loading, hasSearched, calls, last>>
  ELSE /\ Len(calls) < MaxSearches
       /\ loading' = TRUE
       /\ hasSearched' = TRUE
       /\ books' = <<>>
       /\ calls' = Append(calls, [pc |-> "fetch",
                                  request |-> Request(searchType, searchQuery),
                                  searchType |-> searchType])
       /\ UNCHANGED <<searchQuery, searchType, toast, last>>

searchBooks ==
  IF Trim(searchQuery) = <<>>
  THEN /\ toast' = ToastValidation
       /\ UNCHANGED <<searchQuery, searchType, books, loading, hasSearched, calls, last>>
  ELSE /\ Len(calls) < MaxSearches
       /\ loading' = TRUE
       /\ hasSearched' = TRUE
       /\ calls' = Append(calls, [pc |-> "fetch",
                                  request |-> Request(searchType, searchQuery),
                                  searchType |-> searchType])
       /\ UNCHANGED <<searchQuery, searchType, books, toast, last>>

\* the search button, disabled while loading
ClickSearch ==
  /\ ~loading
  /\ submitted' = TRUE
  /\ searchBooks

\* onKeyPress of the input
handleKeyPress(key) ==
  IF key = "Enter"
  THEN /\ submitted' = TRUE
       /\ searchBooks
  ELSE /\ submitted' = FALSE
       /\ UNCHANGED <<searchQuery, searchType, books, loading, hasSearched, toast, calls, last>>

(***************************************************************************)
(* searchBooks after its awaits.                                           *)
(***************************************************************************)
\* mutant: the catch block clears the stored records
Fail_ClearsBooks(i) ==
  /\ toast' = ToastFailed
  /\ loading' = FALSE
  /\ books' = <<>>
  /\ calls' = [calls EXCEPT ![i] = Done]
  /\ submitted' = FALSE
  /\ last' = [id |-> i, kind |-> "failed", docs |-> <<>>, numFound |-> 0]
  /\ UNCHANGED <<searchQuery, searchType, hasSearched>>

\* mutant: no finally block, setLoading(false) is not reached after a throw
Fail_KeepsLoading(i) ==
  /\ toast' = ToastFailed
  /\ calls' = [calls EXCEPT ![i] = Done]
  /\ submitted' = FALSE
  /\ last' = [id |-> i, kind |-> "failed", docs |-> <<>>, numFound |-> 0]
  /\ UNCHANGED <<searchQuery, searchType, books, loading, hasSearched>>

\* catch and finally
Fail(i) ==
  /\ toast' = ToastFailed
  /\ loading' = FALSE
  /\ calls' = [calls EXCEPT ![i] = Done]
  /\ submitted' = FALSE
  /\ last' = [id |-> i, kind |-> "failed", docs |-> <<>>, numFound |-> 0]
  /\ UNCHANGED <<searchQuery, searchType, books, hasSearched>>

\* await fetch(...) settles: it rejects, or it resolves with response.ok or not
FetchResolve(i, status) ==
  /\ i \in 1..Len(calls)
  /\ calls[i].pc = "fetch"
  /\ IF status = "ok"
     THEN /\ calls' = [calls EXCEPT ![i].pc = "json"]
          /\ submitted' = FALSE
          /\ UNCHANGED <<searchQuery, searchType, books, loading, hasSearched, toast, last>>
     ELSE Fail(i)

\* mutant: the docs are appended to the stored records
JsonResolve_Merges(i, data) ==
  /\ i \in 1..Len(calls)
  /\ calls[i].pc = "json"
  /\ books' = books \o data.docs
  /\ toast' = IF Len(data.docs) = 0
              THEN ToastNoBooks(calls[i].searchType)
              ELSE ToastSuccess(data.numFound)
  /\ loading' = FALSE
  /\ calls' = [calls EXCEPT ![i] = Done]
  /\ submitted' = FALSE
  /\ last' = [id |-> i, kind |-> "ok", docs |-> data.docs, numFound |-> data.numFound]
  /\ UNCHANGED <<searchQuery, searchType, hasSearched>>

\* mutant: an empty docs list is reported as a failure
JsonResolve_EmptyFails(i, data) ==
  /\ i \in 1..Len(calls)
  /\ calls[i].pc = "json"
  /\ books' = data.docs
  /\ toast' = IF Len(data.docs) = 0
              THEN ToastFailed
              ELSE ToastSuccess(data.numFound)
  /\ loading' = FALSE
  /\ calls' = [calls EXCEPT ![i] = Done]
  /\ submitted' = FALSE
  /\ last' = [id |-> i, kind |-> "ok", docs |-> data.docs, numFound |-> data.numFound]
  /\ UNCHANGED <<searchQuery, searchType, hasSearched>>

\* await response.json() resolves with data
JsonResolve(i, data) ==
  /\ i \in 1..Len(calls)
  /\ calls[i].pc = "json"
  /\ books' = data.docs
  /\ toast' = IF Len(data.docs) = 0
              THEN ToastNoBooks(calls[i].searchType)
              ELSE ToastSuccess(data.numFound)
  /\ loading' = FALSE
  /\ calls' = [calls EXCEPT ![i] = Done]
  /\ submitted' = FALSE
  /\ last' = [id |-> i, kind |-> "ok", docs |-> data.docs, numFound |-> data.numFound]
  /\ UNCHANGED <<searchQuery, searchType, hasSearched>>

\* await response.json() rejects
JsonReject(i) ==
  /\ i \in 1..Len(calls)
  /\ calls[i].pc = "json"
  /\ Fail(i)

Next ==
  \/ \E t \in Terms : setSearchQuery(t)
  \/ \E type \in SearchTypes : setSearchType(type)
  \/ ClickSearch
  \/ \E key \in Keys : handleKeyPress(key)
  \/ \E i \in 1..MaxSearches, status \in {"ok", "notok", "reject"} : FetchResolve(i, status)
  \/ \E i \in 1..MaxSearches : \E data \in Bodies(i) : JsonResolve(i, data)
  \/ \E i \in 1..MaxSearches : JsonReject(i)

Spec == Init /\ [][Next]_vars

\* every request settles, and so does the parse of every ok response
Fairness ==
  \A i \in 1..MaxSearches :
    /\ WF_vars(\E status \in {"ok", "notok", "reject"} : FetchResolve(i, status))
    /\ WF_vars((\E data \in Bodies(i) : JsonResolve(i, data)) \/ JsonReject(i))

LiveSpec == Spec /\ Fairness

(***************************************************************************)
(* What the component renders.                                             *)
(***************************************************************************)
ButtonDisabled == loading
SkeletonShown == loading
ResultsShown == ~loading /\ hasSearched /\ Len(books) > 0
NoResultsShown == ~loading /\ hasSearched /\ Len(books) = 0
WelcomeShown == ~hasSearched

(***************************************************************************)
(* Vocabulary of the properties.                                           *)
(***************************************************************************)
Pending(i) == i \in 1..Len(calls) /\ calls[i].pc # "done"
Completed(i) == i \in 1..Len(calls) /\ calls[i].pc = "done"

\* invocation i returns in this step
Completes(i) == Pending(i) /\ Completed(i)'

\* this step is an invocation of searchBooks
Submitted == submitted'

IsBlank(s) == \A k \in 1..Len(s) : s[k] \in WhiteSpace

\* decodeURIComponent, the inverse the catalog applies to a query parameter
DecodeChar(hex) ==
  CASE hex = <<"2", "0">> -> " "
    [] hex = <<"0", "9">> -> "\t"
    [] hex = <<"0", "A">> -> "\n"
    [] hex = <<"2", "5">> -> "%"
    [] OTHER -> "?"

RECURSIVE decodeURIComponent(_)
decodeURIComponent(s) ==
  IF s = <<>> THEN <<>>
  ELSE IF Head(s) = "%" /\ Len(s) >= 3
       THEN <<DecodeChar(SubSeq(s, 2, 3))>> \o decodeURIComponent(SubSeq(s, 4, Len(s)))
       ELSE <<Head(s)>> \o decodeURIComponent(Tail(s))

(***************************************************************************)
(* C1: a response that arrives after the response of a search issued later *)
(* is stale and overwrites neither the stored books nor the notice of the  *)
(* later search.                                                           *)
(***************************************************************************)
C1_StaleResponseIgnored ==
  [][\A i \in 1..MaxSearches :
       (Completes(i) /\ \E j \in (i + 1)..Len(calls) : Completed(j))
         => UNCHANGED <<books, toast>>]_vars

(***************************************************************************)
(* C2: submitting an empty or whitespace-only term, by button or Enter and *)
(* in any state, issues no request, raises the validation notice and       *)
(* leaves loading, hasSearched and books unchanged.                        *)
(***************************************************************************)
C2_BlankSubmitRejected ==
  [][(Submitted /\ IsBlank(searchQuery))
       => /\ calls' = calls
          /\ toast' = ToastValidation
          /\ UNCHANGED <<loading, hasSearched, books>>]_vars

\* a whitespace-only term was rejected while a search was pending over results
C2_Witness ==
  /\ submitted
  /\ searchQuery # <<>>
  /\ IsBlank(searchQuery)
  /\ toast = ToastValidation
  /\ loading
  /\ Len(books) > 0

(***************************************************************************)
(* C3: once an ok response with N > 0 records has been applied, the stored *)
(* and displayed list is exactly the N docs of the response, whatever was  *)
(* stored before, and the success notice states the response's numFound.   *)
(***************************************************************************)
C3_SuccessReplacesBooks ==
  [][\A i \in 1..MaxSearches :
       (Completes(i) /\ last'.id = i /\ last'.kind = "ok" /\ Len(last'.docs) > 0)
         => /\ books' = last'.docs
            /\ Len(books') = Len(last'.docs)
            /\ ResultsShown'
            /\ toast' = ToastSuccess(last'.numFound)]_vars

\* a second search replaced the records of the first, and reported a larger total
C3_Witness ==
  /\ last.id > 1
  /\ last.kind = "ok"
  /\ Len(last.docs) > 0
  /\ last.numFound > Len(last.docs)
  /\ books = last.docs
  /\ toast = ToastSuccess(last.numFound)
  /\ ResultsShown

(***************************************************************************)
(* C4: an ok response with zero records ends the search in the no-results  *)
(* state: the stored record set becomes empty, the "No books found" notice *)
(* is raised and not the failure notice, and the search, having returned,  *)
(* raises nothing later.                                                   *)
(***************************************************************************)
C4_EmptyIsNotFailure ==
  [][\A i \in 1..MaxSearches :
       /\ (Completes(i) /\ last'.id = i /\ last'.kind = "ok" /\ Len(last'.docs) = 0)
            => /\ books' = <<>>
               /\ toast' = ToastNoBooks(calls[i].searchType)
               /\ toast' # ToastFailed
               /\ NoResultsShown'
       /\ Completed(i) => calls'[i] = calls[i]]_vars

\* a second search came back empty after the mode was changed under it
C4_Witness ==
  /\ last.id > 1
  /\ last.kind = "ok"
  /\ last.docs = <<>>
  /\ books = <<>>
  /\ toast.title = "No books found"
  /\ toast # ToastNoBooks(searchType)
  /\ NoResultsShown

(***************************************************************************)
(* C5: when the request of a search rejects or returns a non-ok status,    *)
(* the failure notice is raised, the stored record set stays as it was     *)
(* and no request is issued in its place.                                  *)
(***************************************************************************)
C5_FailureKeepsBooks ==
  [][\A i \in 1..MaxSearches :
       (Completes(i) /\ last'.id = i /\ last'.kind = "failed")
         => /\ toast' = ToastFailed
            /\ books' = books
            /\ ~loading'
            /\ Len(calls') = Len(calls)
            /\ \A j \in 1..Len(calls) : j # i => calls'[j] = calls[j]]_vars

\* a later search failed and the earlier results are still shown
C5_Witness ==
  /\ last.id > 1
  /\ last.kind = "failed"
  /\ toast = ToastFailed
  /\ ResultsShown

(***************************************************************************)
(* C6, as stated: in every state the stored record set is that of the      *)
(* search that completed last.                                             *)
(***************************************************************************)
C6_BooksOfLastCompleted == books = last.docs

(***************************************************************************)
(* C6, amended: the stored record set is empty until a search completes,   *)
(* changes only when an ok response is applied, and is then the docs of    *)
(* that response; starting a search and a failing search leave it alone.   *)
(***************************************************************************)
C6_BooksOfLastApplied ==
  /\ [](/\ last.kind = "none" => books = <<>>
        /\ last.kind = "ok" => books = last.docs)
  /\ [][/\ books' # books => (last' # last /\ last'.kind = "ok" /\ books' = last'.docs)
        /\ Submitted => books' = books]_vars

\* a search is in flight, started by Enter, and the earlier results are stored
C6_Witness ==
  /\ submitted
  /\ Pending(Len(calls))
  /\ last.kind = "ok"
  /\ Len(books) > 0
  /\ books = last.docs

(***************************************************************************)
(* C7: every started search whose request settles leads to a state in      *)
(* which it has returned, loading is false and the search button is        *)
(* enabled.                                                                *)
(***************************************************************************)
C7_SearchReturns ==
  \A i \in 1..MaxSearches :
    Pending(i) ~> (Completed(i) /\ ~loading /\ ~ButtonDisabled)

\* a search has failed, the controller is idle again, and another was started after it
C7_Witness ==
  /\ Len(calls) > 1
  /\ Completed(1)
  /\ last.id = Len(calls)
  /\ last.kind = "failed"
  /\ ~loading

(***************************************************************************)
(* C8: a submit of a non-blank term issues exactly one request, whose      *)
(* field is the mode selected at the submit, whose term decodes to the     *)
(* entered term and whose limit is 20; the request of a pending search     *)
(* does not change when the mode or the term changes.                      *)
(***************************************************************************)
C8_OneRequestPerSubmit ==
  [][/\ (Submitted /\ ~IsBlank(searchQuery))
          => /\ Len(calls') = Len(calls) + 1
             /\ \A j \in 1..Len(calls) : calls'[j] = calls[j]
             /\ calls'[Len(calls')].pc = "fetch"
             /\ calls'[Len(calls')].request.field = searchType
             /\ decodeURIComponent(calls'[Len(calls')].request.term) = searchQuery
             /\ calls'[Len(calls')].request.limit = 20
     /\ \A i \in 1..MaxSearches :
          (Pending(i) /\ Pending(i)') => calls'[i].request = calls[i].request]_vars

\* the request for author Tolkien is pending and the mode has changed since
C8_Witness ==
  \E i \in 1..Len(calls) :
    /\ Pending(i)
    /\ calls[i].request =
         [field |-> "author",
          term |-> <<"%", "2", "0", "T", "o", "l", "k", "i", "e", "n">>,
          limit |-> 20]
    /\ searchType = "subject"
    /\ searchQuery = <<>>

(***************************************************************************)
(* C9: loading is true exactly when some invocation of searchBooks has not *)
(* returned.                                                               *)
(***************************************************************************)
C9_LoadingIffPending ==
  loading <=> \E i \in 1..Len(calls) : Pending(i)

(***************************************************************************)
(* C10: the "No books found" panel is shown only when the search that      *)
(* completed last got an ok response with zero records.                    *)
(***************************************************************************)
C10_NoResultsOnlyAfterEmpty ==
  NoResultsShown => (last.kind = "ok" /\ last.docs = <<>>)

====
